---------------------------- MODULE Spec2Model ----------------------------
(***************************************************************************)
(* The Pokedex panel (createPokedex), in its two variants: the reversible  *)
(* open/close controller and the one-shot open-only controller, together   *)
(* with the content flow it mounts (type selector, random Pokemon display, *)
(* hologram overlay).  The weather command line of the same repository     *)
(* (fetchWeather) is modelled at the end of the program part.              *)
(*                                                                         *)
(* JavaScript runs one task at a time: every action below is one task of   *)
(* the event loop (an input event, a timer callback, a fetch settling, an  *)
(* animation finishing) together with the continuation of every async      *)
(* function that was awaiting it, which runs as a microtask before any     *)
(* other task.  The animation library and the network are outside the      *)
(* program: an animation finishes, a timer fires and a fetch settles at a  *)
(* moment the program does not choose.                                     *)
(***************************************************************************)
EXTENDS Integers, Sequences, FiniteSets, TLC

VARIABLES
    variant,        \* which controller is mounted: "reversible" | "oneshot"
    hologram,       \* which Hologram.js is imported: "awaits" | "timer"
    isOpened,       \* let isOpened
    isAnimating,    \* let isAnimating
    listening,      \* the window listeners: "pending" (mount timer not fired) | "on" | "off"
    trans,          \* in-flight open/close activations, in start order
    leftAnim,       \* latest animate(leftPage, ...):  "none" | "running" | "finished"
    rightAnim,      \* latest animate(rightPage, ...)
    contentAnim,    \* latest animate(content, ...)
    hintAnim,       \* latest animate(hint, ...)
    leftHidden,     \* leftPage.classList has 'hidden'
    rightHidden,    \* rightPage.classList has 'hidden'
    contentHidden,  \* content.classList has 'hidden'
    lastOp,         \* the panel entry point the last task ran, its event and the delta it saw
    typesState,     \* the type selector: "loading" | "loaded" | "error"
    selectorHidden, \* typeSelectorWrapper.classList has 'hidden'
    displayHidden,  \* pokemonDisplayArea.classList has 'hidden'
    currentType,    \* let currentType
    slot,           \* what pokemonDisplay.innerHTML renders
    calls,          \* suspended activations of showPokemonWithHologram
    issued,         \* how many activations of showPokemonWithHologram there have been
    timers,         \* pending setTimeout(..., 1000) callbacks that will build a hologram
    holos,          \* hologram containers that are being built, attached, or fading
    latest,         \* history: what the most recently started activation last rendered
    timelines,      \* the reveal timelines startAnimations created, each with its position
    weather         \* the activation of fetchWeather(city), the request it issued, its result

panelVars == <<isOpened, isAnimating, trans, leftAnim, rightAnim, contentAnim,
               hintAnim, leftHidden, rightHidden, contentHidden>>

contentVars == <<typesState, selectorHidden, displayHidden, currentType, slot,
                 calls, issued, timers, holos, latest>>

vars == <<variant, hologram, isOpened, isAnimating, listening, trans, leftAnim, rightAnim,
          contentAnim, hintAnim, leftHidden, rightHidden, contentHidden, lastOp,
          typesState, selectorHidden, displayHidden, currentType, slot,
          calls, issued, timers, holos, latest, timelines, weather>>

Variants == {"reversible", "oneshot"}

\* The two versions of createHologram: the click handlers of the one await the
\* fade-out's `finished` promise, those of the other set a 300 ms timer.
Holograms == {"awaits", "timer"}

(***************************************************************************)
(* Input events.  A wheel event carries deltaY; a touchmove event carries  *)
(* no deltaY but a touch list whose first entry has a clientY, a viewport  *)
(* coordinate (never negative).  A touchmove reports where the finger is;  *)
(* fromY is where the previous event of the same drag reported it, so the  *)
(* drag moved by clientY - fromY.  The handlers take whatever object the   *)
(* window dispatches, so a delta may also be one of JavaScript's           *)
(* non-finite numbers.                                                     *)
(***************************************************************************)
MaxDelta == 1

\* Numbers are integers; the three non-finite numbers are encoded outside the
\* finite range, the infinities in their place in the order.
PosInfinity == MaxDelta + 1

NegInfinity == 0 - PosInfinity

NaN == MaxDelta + 2

NonFinite == {NaN, PosInfinity, NegInfinity}

\* JavaScript's d > 0, d < 0 and the truthiness of d: every comparison with
\* NaN is false, and 0 and NaN are the falsy numbers.
Gt0(d) == d # NaN /\ d > 0

Lt0(d) == d # NaN /\ d < 0

Truthy(d) == d # 0 /\ d # NaN

WheelEvents == [channel : {"wheel"}, deltaY : ((0 - MaxDelta)..MaxDelta) \cup NonFinite]

TouchEvents == [channel : {"touchmove"},
                clientY : (0..MaxDelta) \cup {PosInfinity, NaN},
                fromY : 0..MaxDelta]

Events == WheelEvents \cup TouchEvents

\* const deltaY = e.deltaY || (e.touches ? e.touches[0].clientY : 0)
ScrollDelta(e) ==
    IF e.channel = "wheel"
    THEN (IF Truthy(e.deltaY) THEN e.deltaY ELSE 0)   \* falsy, and no touches: 0
    ELSE e.clientY      \* deltaY is undefined: the touch's clientY

\* The state of the machine as the two flags encode it.
PanelState ==
    IF isAnimating
    THEN (IF isOpened THEN "CLOSING" ELSE "OPENING")
    ELSE (IF isOpened THEN "OPEN" ELSE "CLOSED")

\* ---- fetchWeather: JavaScript values ----
\* A JavaScript value: its typeof tag t, its number n (a boolean is 1 or 0)
\* and its characters s (for an object, the names of its keys).
JsUndefined == [t |-> "undefined", n |-> 0, s |-> <<>>]

JsNull == [t |-> "null", n |-> 0, s |-> <<>>]

JsNumber(k) == [t |-> "number", n |-> k, s |-> <<>>]

JsBoolean(b) == [t |-> "boolean", n |-> IF b THEN 1 ELSE 0, s |-> <<>>]

JsString(chars) == [t |-> "string", n |-> 0, s |-> chars]

JsObject(keys) == [t |-> "object", n |-> 0, s |-> keys]

\* !v
Falsy(v) ==
    \/ v.t \in {"undefined", "null"}
    \/ v.t \in {"number", "boolean"} /\ v.n = 0
    \/ v.t = "string" /\ v.s = <<>>

\* typeof v
TypeOf(v) == IF v.t = "null" THEN "object" ELSE v.t

\* An error object: its `response` (when the server answered), its `code`
\* and its message.
NoResponse == [present |-> FALSE, status |-> 0, statusText |-> ""]

HttpResponse(status, statusText) ==
    [present |-> TRUE, status |-> status, statusText |-> statusText]

NewError(message) == [response |-> NoResponse, code |-> "", message |-> message]

\* What the promise returned by fetchWeather has settled to.
Pending == [kind |-> "pending", data |-> JsUndefined, error |-> NewError(<<>>)]

Resolved(data) == [kind |-> "resolved", data |-> data, error |-> NewError(<<>>)]

Rejected(error) == [kind |-> "rejected", data |-> JsUndefined, error |-> error]

\* fetchWeather has not been called.
NotCalled ==
    [pc |-> "idle", city |-> JsUndefined, requests |-> <<>>,
     outcome |-> Pending, result |-> Pending]

Init ==
    /\ variant \in Variants
    /\ hologram \in Holograms
    /\ isOpened = FALSE
    /\ isAnimating = FALSE
    /\ listening = "pending"
    /\ trans = <<>>
    /\ leftAnim = "none"
    /\ rightAnim = "none"
    /\ contentAnim = "none"
    /\ hintAnim = "none"
    /\ leftHidden = FALSE
    /\ rightHidden = FALSE
    /\ contentHidden = TRUE
    /\ lastOp = [op |-> "other", delta |-> 0, ev |-> [channel |-> "none"]]
    /\ typesState = "loading"       \* createTypeSelector has called fetchTypes()
    /\ selectorHidden = FALSE
    /\ displayHidden = TRUE
    /\ currentType = "null"
    /\ slot = [kind |-> "empty", item |-> 0, msg |-> "", no |-> <<>>, name |-> <<>>]
    /\ calls = {}
    /\ issued = 0
    /\ timers = {}
    /\ holos = {}
    /\ latest = [kind |-> "empty", item |-> 0, msg |-> "", no |-> <<>>, name |-> <<>>]
    /\ timelines = {}
    /\ weather = NotCalled

Other == [op |-> "other", delta |-> 0, ev |-> [channel |-> "none"]]

RemoveAt(s, i) == SubSeq(s, 1, i - 1) \o SubSeq(s, i + 1, Len(s))

\* The activations of trans that are suspended at the await named pc.
Awaiting(pc) == {i \in 1..Len(trans) : trans[i].pc = pc}

First(S) == CHOOSE i \in S : \A j \in S : i <= j

\* setTimeout(() => { window.addEventListener('wheel' / 'touchmove', handleScroll) }, 100)
AttachListeners ==
    /\ listening = "pending"
    /\ listening' = "on"
    /\ lastOp' = Other
    /\ UNCHANGED <<weather, timelines, variant, hologram, panelVars, contentVars>>

(***************************************************************************)
(* The reversible controller.                                              *)
(***************************************************************************)

\* openPokedex's guard without its isAnimating half.
OpenGuardIgnoresAnimating == ~isOpened

\* if (isOpened || isAnimating) return;    lets the call through when this holds
OpenGuard == ~(isOpened \/ isAnimating)

\* closePokedex's guard without its !isOpened half.
CloseGuardIgnoresOpened == ~isAnimating

\* if (!isOpened || isAnimating) return;
CloseGuard == ~(~isOpened \/ isAnimating)

\* if (isAnimating) return;
ScrollGuard == ~isAnimating

\* The flag left as it was when a transition starts.
SetAnimatingForgotten == isAnimating' = isAnimating

\* isAnimating = true;  at the head of openPokedex and of closePokedex
SetAnimating == isAnimating' = TRUE

\* openPokedex up to its first await: the flag, the hint fade, the two leaf rotations.
OpenStart ==
    IF OpenGuard
    THEN /\ SetAnimating
         /\ hintAnim' = "running"
         /\ leftAnim' = "running"
         /\ rightAnim' = "running"
         /\ trans' = Append(trans, [kind |-> "open", pc |-> "left"])
         /\ UNCHANGED <<isOpened, contentAnim, leftHidden, rightHidden, contentHidden>>
    ELSE UNCHANGED panelVars

\* closePokedex up to its first await: the flag and the content fade-out.
CloseStart ==
    IF CloseGuard
    THEN /\ SetAnimating
         /\ contentAnim' = "running"
         /\ trans' = Append(trans, [kind |-> "close", pc |-> "content"])
         /\ UNCHANGED <<isOpened, hintAnim, leftAnim, rightAnim,
                        leftHidden, rightHidden, contentHidden>>
    ELSE UNCHANGED panelVars

\* A direct call of openPokedex().
OpenPokedex ==
    /\ variant = "reversible"
    /\ OpenStart
    /\ lastOp' = [op |-> "openPokedex", delta |-> 0, ev |-> [channel |-> "none"]]
    /\ UNCHANGED <<weather, timelines, variant, hologram, listening, contentVars>>

\* A direct call of closePokedex().
ClosePokedex ==
    /\ variant = "reversible"
    /\ CloseStart
    /\ lastOp' = [op |-> "closePokedex", delta |-> 0, ev |-> [channel |-> "none"]]
    /\ UNCHANGED <<weather, timelines, variant, hologram, listening, contentVars>>

\* handleScroll of the reversible controller, for one wheel or touchmove event.
HandleScroll(e) ==
    /\ variant = "reversible"
    /\ listening = "on"
    /\ IF ~ScrollGuard
       THEN UNCHANGED panelVars
       ELSE IF Gt0(ScrollDelta(e)) /\ ~isOpened
            THEN OpenStart
            ELSE IF Lt0(ScrollDelta(e)) /\ isOpened
                 THEN CloseStart
                 ELSE UNCHANGED panelVars
    /\ lastOp' = [op |-> "handleScroll", delta |-> ScrollDelta(e), ev |-> e]
    /\ UNCHANGED <<weather, timelines, variant, hologram, listening, contentVars>>

\* openPokedex after `await leftPageAnim.finished`: swap leaves for content, fade it in.
OpenAfterLeaf(i) ==
    /\ leftHidden' = TRUE
    /\ rightHidden' = TRUE
    /\ contentHidden' = FALSE
    /\ contentAnim' = "running"
    /\ trans' = [trans EXCEPT ![i].pc = "content"]
    /\ UNCHANGED <<isOpened, isAnimating, rightAnim, hintAnim>>

\* The tail of openPokedex without isOpened = true.
OpenSettleKeepsClosed ==
    /\ isOpened' = isOpened
    /\ isAnimating' = FALSE

\* isOpened = true; isAnimating = false;  the tail of openPokedex
OpenSettle ==
    /\ isOpened' = TRUE
    /\ isAnimating' = FALSE

\* openPokedex after `await contentAnim.finished`.
OpenAfterContent(i) ==
    /\ OpenSettle
    /\ trans' = RemoveAt(trans, i)
    /\ UNCHANGED <<leftAnim, rightAnim, hintAnim, leftHidden, rightHidden, contentHidden>>

\* closePokedex after `await contentAnim.finished`: swap content for leaves, rotate them back.
CloseAfterContent(i) ==
    /\ contentHidden' = TRUE
    /\ leftHidden' = FALSE
    /\ rightHidden' = FALSE
    /\ leftAnim' = "running"
    /\ rightAnim' = "running"
    /\ trans' = [trans EXCEPT ![i].pc = "left"]
    /\ UNCHANGED <<isOpened, isAnimating, hintAnim>>

\* closePokedex after `await leftPageAnim.finished`: hint back, flags reset.
CloseAfterLeaf(i) ==
    /\ hintAnim' = "running"
    /\ isOpened' = FALSE
    /\ isAnimating' = FALSE
    /\ trans' = RemoveAt(trans, i)
    /\ UNCHANGED <<rightAnim, contentAnim, leftHidden, rightHidden, contentHidden>>

\* The animation layer completes the left-leaf rotation; whoever awaits it goes on.
LeftAnimFinished ==
    /\ leftAnim = "running"
    /\ IF Awaiting("left") = {}
       THEN /\ leftAnim' = "finished"
            /\ UNCHANGED <<isOpened, isAnimating, trans, rightAnim, contentAnim,
                           hintAnim, leftHidden, rightHidden, contentHidden>>
       ELSE LET i == First(Awaiting("left")) IN
            /\ leftAnim' = IF Cardinality(Awaiting("left")) > 1 THEN "running" ELSE "finished"
            /\ IF trans[i].kind = "open" THEN OpenAfterLeaf(i) ELSE CloseAfterLeaf(i)
    /\ lastOp' = Other
    /\ UNCHANGED <<weather, timelines, variant, hologram, listening, contentVars>>

\* The animation layer completes the right-leaf rotation; nobody awaits it.
RightAnimFinished ==
    /\ rightAnim = "running"
    /\ rightAnim' = "finished"
    /\ lastOp' = Other
    /\ UNCHANGED <<weather, timelines, variant, hologram, listening, contentVars, isOpened, isAnimating, trans, leftAnim, contentAnim,
                   hintAnim, leftHidden, rightHidden, contentHidden>>

\* The animation layer completes the hint fade; nobody awaits it.
HintAnimFinished ==
    /\ hintAnim = "running"
    /\ hintAnim' = "finished"
    /\ lastOp' = Other
    /\ UNCHANGED <<weather, timelines, variant, hologram, listening, contentVars, isOpened, isAnimating, trans, leftAnim, rightAnim,
                   contentAnim, leftHidden, rightHidden, contentHidden>>

\* The animation layer completes the content fade; whoever awaits it goes on.
ContentAnimFinished ==
    /\ contentAnim = "running"
    /\ IF Awaiting("content") = {}
       THEN /\ contentAnim' = "finished"
            /\ UNCHANGED <<isOpened, isAnimating, trans, leftAnim, rightAnim,
                           hintAnim, leftHidden, rightHidden, contentHidden>>
       ELSE LET i == First(Awaiting("content")) IN
            /\ IF trans[i].kind = "open"
               THEN /\ OpenAfterContent(i)
                    /\ contentAnim' = IF Cardinality(Awaiting("content")) > 1
                                      THEN "running" ELSE "finished"
               ELSE /\ CloseAfterContent(i)
                    /\ contentAnim' = IF Cardinality(Awaiting("content")) > 1
                                      THEN "running" ELSE "finished"
    /\ lastOp' = Other
    /\ UNCHANGED <<weather, timelines, variant, hologram, listening, contentVars>>

(***************************************************************************)
(* The one-shot controller: handleScroll opens, a 1000 ms timer settles.   *)
(***************************************************************************)

\* if (isOpened || isAnimating) return;
OneShotGuard == ~(isOpened \/ isAnimating)

\* handleScroll of the one-shot controller: no delta is read.
HandleScrollOnce(e) ==
    /\ variant = "oneshot"
    /\ listening = "on"
    /\ IF OneShotGuard
       THEN /\ isAnimating' = TRUE
            /\ hintAnim' = "running"
            /\ leftAnim' = "running"
            /\ rightAnim' = "running"
            /\ trans' = Append(trans, [kind |-> "open", pc |-> "timer"])
            /\ UNCHANGED <<isOpened, contentAnim, leftHidden, rightHidden, contentHidden>>
       ELSE UNCHANGED panelVars
    /\ lastOp' = [op |-> "handleScroll", delta |-> ScrollDelta(e), ev |-> e]
    /\ UNCHANGED <<weather, timelines, variant, hologram, listening, contentVars>>

\* The listeners left attached when the panel has opened.
ListenersKept == "on"

\* window.removeEventListener('wheel', handleScroll) and ('touchmove', handleScroll)
ListenersRetired == "off"

\* The setTimeout(..., 1000) callback of the one-shot handleScroll.
OpenTimerFired ==
    /\ Awaiting("timer") # {}
    /\ LET i == First(Awaiting("timer")) IN
       /\ leftHidden' = TRUE
       /\ rightHidden' = TRUE
       /\ contentHidden' = FALSE
       /\ contentAnim' = "running"
       /\ isOpened' = TRUE
       /\ isAnimating' = FALSE
       /\ trans' = RemoveAt(trans, i)
    /\ listening' = ListenersRetired
    /\ lastOp' = Other
    /\ UNCHANGED <<weather, timelines, variant, hologram, leftAnim, rightAnim, hintAnim, contentVars>>

\* A wheel or touchmove event dispatched on the window while handleScroll is not
\* (or no longer) attached to it: no code of the panel runs.
GestureUnheard(e) ==
    /\ listening # "on"
    /\ lastOp' = [op |-> "unheard", delta |-> 0, ev |-> e]
    /\ UNCHANGED <<weather, timelines, variant, hologram, listening, panelVars, contentVars>>

(***************************************************************************)
(* The content flow: type selector, random Pokemon display, hologram.      *)
(***************************************************************************)
MaxRefresh == 3     \* activations of showPokemonWithHologram in one run

MaxClicks == 2      \* Close/Next fade-outs pending on one hologram at a time

Types == {"fire", "water", "stellar"}

\* data.pokemon.map(p => p.pokemon) for each type: the ids of its members.
Members(t) ==
    CASE t = "fire" -> <<4, 25>>
      [] t = "water" -> <<1024>>
      [] OTHER -> <<>>

Outcomes == {"ok", "fail"}

RandomSteps == 2    \* Math.random() yields rnd / RandomSteps for rnd in 0..RandomSteps-1

\* Math.ceil in place of Math.floor.
RandomIndexRoundsUp(rnd, len) == (rnd * len + RandomSteps - 1) \div RandomSteps

\* const randomIndex = Math.floor(Math.random() * pokemonList.length)
RandomIndex(rnd, len) == (rnd * len) \div RandomSteps

\* The value undefined, where a member id is expected.
Undefined == 0

\* pokemonList[i]: undefined when i is not an index of the list
ListAt(list, i) == IF i + 1 \in DOMAIN list THEN list[i + 1] ELSE Undefined

Loading == [kind |-> "loading", item |-> 0, msg |-> "", no |-> <<>>, name |-> <<>>]

\* Text is a sequence of characters.  details.name of each member.
NameOf(id) ==
    CASE id = 4 -> <<"c", "h", "a", "r", "m", "a", "n", "d", "e", "r">>
      [] id = 25 -> <<"p", "i", "k", "a", "c", "h", "u">>
      [] OTHER -> <<"t", "e", "r", "a", "p", "a", "g", "o", "s">>

DigitChars == <<"0", "1", "2", "3", "4", "5", "6", "7", "8", "9">>

\* String(n) for a natural number n: its decimal digits.
RECURSIVE StringOf(_)
StringOf(n) ==
    IF n < 10 THEN <<DigitChars[n + 1]>>
    ELSE StringOf(n \div 10) \o <<DigitChars[(n % 10) + 1]>>

\* s.padStart(width, ch)
RECURSIVE PadStart(_, _, _)
PadStart(s, width, ch) ==
    IF Len(s) >= width THEN s ELSE PadStart(<<ch>> \o s, width, ch)

\* ch.toUpperCase() for the characters that occur
ToUpperCase(ch) ==
    CASE ch = "c" -> "C"
      [] ch = "p" -> "P"
      [] ch = "t" -> "T"
      [] OTHER -> ch

\* numberEl.textContent = `No.${String(pokemon.id).padStart(4, '0')}`
NumberText(id) == <<"N", "o", ".">> \o PadStart(StringOf(id), 4, "0")

\* nameEl.textContent = pokemon.name.charAt(0).toUpperCase() + pokemon.name.slice(1)
NameText(name) ==
    IF name = <<>> THEN <<>> ELSE <<ToUpperCase(Head(name))>> \o Tail(name)

\* The item rendering that displayPokemon fills in.
Rendered(item) ==
    [kind |-> "item", item |-> item, msg |-> "",
     no |-> NumberText(item), name |-> NameText(NameOf(item))]

\* pokemonDisplay.innerHTML = `<p class="error-text">Error: ${error.message}</p>`
ErrorText(msg) == [kind |-> "error", item |-> 0, msg |-> msg, no |-> <<>>, name |-> <<>>]

RECURSIVE SumNexting(_)
SumNexting(S) ==
    IF S = {} THEN 0
    ELSE LET h == CHOOSE x \in S : TRUE IN h.nexting + SumNexting(S \ {h})

\* Activations still to come from Next fade-outs already running.
PendingNexts == SumNexting(holos)

\* fetchTypes() settles: the buttons are rendered, or the error text.
TypesSettled(r) ==
    /\ typesState = "loading"
    /\ typesState' = IF r = "ok" THEN "loaded" ELSE "error"
    /\ lastOp' = Other
    /\ UNCHANGED <<weather, timelines, variant, hologram, listening, panelVars, selectorHidden, displayHidden,
                   currentType, slot, calls, issued, timers, holos, latest>>

\* An activation that requests a member's details without the list.
ShowStartSkipsList(t, src, nth) ==
    /\ currentType' = t
    /\ selectorHidden' = TRUE
    /\ displayHidden' = FALSE
    /\ slot' = Loading
    /\ latest' = Loading
    /\ issued' = issued + 1
    /\ calls' = calls \cup {[id |-> issued + 1, type |-> t, pc |-> "detail",
                             pick |-> ListAt(Members(t), 0), src |-> src, nth |-> nth]}

\* showPokemonWithHologram up to `await getRandomPokemon(typeName)`.
\* src is the hologram whose Next started it (0: the selector), nth its rank there.
ShowStart(t, src, nth) ==
    /\ currentType' = t
    /\ selectorHidden' = TRUE
    /\ displayHidden' = FALSE
    /\ slot' = Loading
    /\ latest' = Loading
    /\ issued' = issued + 1
    /\ calls' = calls \cup {[id |-> issued + 1, type |-> t, pc |-> "list",
                             pick |-> 0, src |-> src, nth |-> nth]}

\* A click on a type button of the selector.
SelectType(t) ==
    /\ typesState = "loaded"
    /\ ~selectorHidden
    /\ ~contentHidden
    /\ issued + PendingNexts < MaxRefresh
    /\ ShowStart(t, 0, 1)
    /\ lastOp' = Other
    /\ UNCHANGED <<weather, timelines, variant, hologram, listening, panelVars, typesState, timers, holos>>

\* What showPokemonWithHologram does with a value resolved by getRandomPokemon.
ApplyResult(c) ==
    /\ slot' = Rendered(c.pick)
    /\ timers' = timers \cup {[id |-> c.id, type |-> c.type, item |-> c.pick,
                                src |-> c.src, nth |-> c.nth]}

\* fetchPokemonByType settles inside getRandomPokemon; on success a member is drawn
\* and its details are requested.
ListSettled(c, r, rnd) ==
    /\ c \in calls
    /\ c.pc = "list"
    /\ IF r = "fail"
       THEN /\ slot' = ErrorText("Failed to fetch Pokemon by type")
            /\ calls' = calls \ {c}
       ELSE LET randomPokemon ==
                    ListAt(Members(c.type), RandomIndex(rnd, Len(Members(c.type))))
            IN IF randomPokemon = Undefined
               THEN \* reading randomPokemon.url throws a TypeError
                    /\ slot' = ErrorText("TypeError")
                    /\ calls' = calls \ {c}
               ELSE /\ slot' = slot
                    /\ calls' = (calls \ {c}) \cup
                           {[c EXCEPT !.pc = "detail", !.pick = randomPokemon]}
    /\ lastOp' = Other
    /\ UNCHANGED <<weather, timelines, variant, hologram, listening, panelVars, typesState, selectorHidden,
                   displayHidden, currentType, issued, timers, holos>>
    /\ latest' = IF c.id = issued /\ (\A d \in calls' : d.id # c.id)
                  THEN slot' ELSE latest

\* fetchPokemonDetails settles inside getRandomPokemon; the awaiting
\* showPokemonWithHologram renders the item and arms the hologram timer, or shows the error.
DetailSettled(c, r) ==
    /\ c \in calls
    /\ c.pc = "detail"
    /\ IF r = "ok"
       THEN ApplyResult(c)
       ELSE /\ slot' = ErrorText("Failed to fetch Pokemon details")
            /\ timers' = timers
    /\ calls' = calls \ {c}
    /\ lastOp' = Other
    /\ UNCHANGED <<weather, timelines, variant, hologram, listening, panelVars, typesState, selectorHidden,
                   displayHidden, currentType, issued, holos>>
    /\ latest' = IF c.id = issued THEN slot' ELSE latest

\* A Back click that shows the selector and leaves the display region shown.
BackKeepsDisplay ==
    /\ slot.kind = "item"
    /\ ~displayHidden
    /\ ~contentHidden
    /\ displayHidden' = FALSE
    /\ selectorHidden' = FALSE
    /\ lastOp' = Other
    /\ UNCHANGED <<weather, timelines, variant, hologram, listening, panelVars, typesState, currentType, slot,
                   calls, issued, timers, holos, latest>>

\* A click on "Back to Types", which exists only in the item rendering.
Back ==
    /\ slot.kind = "item"
    /\ ~displayHidden
    /\ ~contentHidden
    /\ displayHidden' = TRUE
    /\ selectorHidden' = FALSE
    /\ lastOp' = Other
    /\ UNCHANGED <<weather, timelines, variant, hologram, listening, panelVars, typesState, currentType, slot,
                   calls, issued, timers, holos, latest>>

\* The setTimeout(..., 1000) callback: createHologram builds the container, calls
\* fetchPokemonDetails and fetchPokemonSpecies and suspends on their Promise.all.
\* type is the typeName of the activation whose closure the callback lives in.
SettleTimerFired(tm) ==
    /\ tm \in timers
    /\ timers' = timers \ {tm}
    /\ holos' = holos \cup {[id |-> tm.id, type |-> tm.type, item |-> tm.item,
                             src |-> tm.src, nth |-> tm.nth,
                             st |-> "fetching", det |-> "pending", spe |-> "pending",
                             stats |-> "loading", desc |-> "loading",
                             closing |-> 0, nexting |-> 0, fading |-> 0, fired |-> 0]}
    /\ lastOp' = Other
    /\ UNCHANGED <<weather, timelines, variant, hologram, listening, panelVars, typesState, selectorHidden,
                   displayHidden, currentType, slot, calls, issued, latest>>

\* The two requests of createHologram: det is fetchPokemonDetails, spe is
\* fetchPokemonSpecies.
SubFetches == {"det", "spe"}

\* createHologram rejecting when one of its requests fails: nothing is attached.
HoloFetchedRejects(h, which, r) ==
    /\ h \in holos
    /\ h[which] = "pending"
    /\ LET g == [h EXCEPT ![which] = r] IN
       holos' = (holos \ {h}) \cup
          (IF h.st # "fetching"
           THEN {g}
           ELSE IF r = "fail"
                THEN {}
                ELSE IF g.det = "ok" /\ g.spe = "ok"
                     THEN {[g EXCEPT !.st = "attached", !.stats = "data", !.desc = "data"]}
                     ELSE {g})
    /\ lastOp' = Other
    /\ UNCHANGED <<weather, timelines, variant, hologram, listening, panelVars, typesState, selectorHidden,
                   displayHidden, currentType, slot, calls, issued, timers, latest>>

\* One of the two requests settles.  Promise.all rejects with the first failure and
\* fulfils with the second success; createHologram then fills (or fails) both
\* sections, returns, and the caller appends the container.  A request that settles
\* after Promise.all did has no continuation left.
HoloFetched(h, which, r) ==
    /\ h \in holos
    /\ h[which] = "pending"
    /\ LET g == [h EXCEPT ![which] = r] IN
       holos' = (holos \ {h}) \cup
          {IF h.st # "fetching"
           THEN g
           ELSE IF r = "fail"
                THEN [g EXCEPT !.st = "attached", !.stats = "error", !.desc = "error"]
                ELSE IF g.det = "ok" /\ g.spe = "ok"
                     THEN [g EXCEPT !.st = "attached", !.stats = "data", !.desc = "data"]
                     ELSE g}
    /\ lastOp' = Other
    /\ UNCHANGED <<weather, timelines, variant, hologram, listening, panelVars, typesState, selectorHidden,
                   displayHidden, currentType, slot, calls, issued, timers, latest>>

\* A click on the hologram's close button: its fade-out starts.
ClickClose(h) ==
    /\ h \in holos
    /\ h.st = "attached"
    /\ h.closing + h.nexting < MaxClicks
    /\ holos' = (holos \ {h}) \cup
           {[h EXCEPT !.closing = h.closing + 1, !.fading = h.fading + 1]}
    /\ lastOp' = Other
    /\ UNCHANGED <<weather, timelines, variant, hologram, listening, panelVars, typesState, selectorHidden,
                   displayHidden, currentType, slot, calls, issued, timers, latest>>

\* A click on the hologram's Next button: its fade-out starts.
ClickNext(h) ==
    /\ h \in holos
    /\ h.st = "attached"
    /\ h.closing + h.nexting < MaxClicks
    /\ issued + PendingNexts < MaxRefresh
    /\ holos' = (holos \ {h}) \cup
           {[h EXCEPT !.nexting = h.nexting + 1, !.fading = h.fading + 1]}
    /\ lastOp' = Other
    /\ UNCHANGED <<weather, timelines, variant, hologram, listening, panelVars, typesState, selectorHidden,
                   displayHidden, currentType, slot, calls, issued, timers, latest>>

\* A detached container with no click handler suspended and no fade-out running
\* is garbage.
Collect(h) ==
    IF h.st = "detached" /\ h.closing + h.nexting = 0 /\ h.fading = 0 THEN {} ELSE {h}

\* The record of h after container.remove() ran.
Detached(h) == Collect([h EXCEPT !.st = "detached"])

\* What resumes a click handler: with "awaits" the end of one of the container's
\* fade-outs (await anim.finished), with "timer" its setTimeout(..., 300), which
\* leaves the fade-outs running.
FadesLeft(h) == IF hologram = "awaits" THEN h.fading - 1 ELSE h.fading

\* A close handler resumes: onClose(), container.remove().
CloseFadeDone(h) ==
    /\ h \in holos
    /\ h.closing > 0
    /\ holos' = (holos \ {h}) \cup
           Detached([h EXCEPT !.closing = h.closing - 1, !.fading = FadesLeft(h)])
    /\ lastOp' = Other
    /\ UNCHANGED <<weather, timelines, variant, hologram, listening, panelVars, typesState, selectorHidden,
                   displayHidden, currentType, slot, calls, issued, timers, latest>>

\* A Next handler resumes: container.remove(), then onNext() calls
\* showPokemonWithHologram(currentType).
NextFadeDone(h) ==
    /\ h \in holos
    /\ h.nexting > 0
    /\ holos' = (holos \ {h}) \cup
           Detached([h EXCEPT !.nexting = h.nexting - 1, !.fired = h.fired + 1,
                              !.fading = FadesLeft(h)])
    /\ ShowStart(currentType, h.id, h.fired + 1)
    /\ lastOp' = Other
    /\ UNCHANGED <<weather, timelines, variant, hologram, listening, panelVars, typesState, timers>>

\* With the "timer" hologram a fade-out finishes on its own, resuming nothing.
FadeAnimFinished(h) ==
    /\ hologram = "timer"
    /\ h \in holos
    /\ h.fading > 0
    /\ holos' = (holos \ {h}) \cup Collect([h EXCEPT !.fading = h.fading - 1])
    /\ lastOp' = Other
    /\ UNCHANGED <<weather, timelines, variant, hologram, listening, panelVars, typesState, selectorHidden,
                   displayHidden, currentType, slot, calls, issued, timers, latest>>

\* A wheel or touchmove event reaches the mounted controller.
Gesture == \E e \in Events : HandleScroll(e)

GestureOnce == \E e \in Events : HandleScrollOnce(e)

Unheard == \E e \in Events : GestureUnheard(e)

\* Every task the panel controllers can run.
PanelNext ==
    \/ AttachListeners
    \/ OpenPokedex
    \/ ClosePokedex
    \/ Gesture
    \/ GestureOnce
    \/ Unheard
    \/ LeftAnimFinished
    \/ RightAnimFinished
    \/ HintAnimFinished
    \/ ContentAnimFinished
    \/ OpenTimerFired

\* The tasks of the content flow, each over whatever it can apply to.
TypesSettle == \E r \in Outcomes : TypesSettled(r)

Select == \E t \in Types : SelectType(t)

ListSettle ==
    \E c \in calls, r \in Outcomes, rnd \in 0..(RandomSteps - 1) : ListSettled(c, r, rnd)

DetailSettle == \E c \in calls, r \in Outcomes : DetailSettled(c, r)

SettleTimer == \E tm \in timers : SettleTimerFired(tm)

HoloFetch == \E h \in holos, which \in SubFetches, r \in Outcomes : HoloFetched(h, which, r)

CloseClick == \E h \in holos : ClickClose(h)

NextClick == \E h \in holos : ClickNext(h)

CloseFade == \E h \in holos : CloseFadeDone(h)

NextFade == \E h \in holos : NextFadeDone(h)

FadeFinish == \E h \in holos : FadeAnimFinished(h)

\* Every task of the content flow.
ContentNext ==
    \/ TypesSettle
    \/ Select
    \/ ListSettle
    \/ DetailSettle
    \/ Back
    \/ SettleTimer
    \/ HoloFetch
    \/ CloseClick
    \/ NextClick
    \/ CloseFade
    \/ NextFade
    \/ FadeFinish

Next == PanelNext \/ ContentNext

\* The whole program.
Spec == Init /\ [][Next]_vars

\* ---- fetchWeather(city) ----
\* The longest city name that is tried.
MaxCityLen == 3

\* The characters of the city names that are tried: a space and a letter.
CityChars == {" ", "a"}

RECURSIVE StringsUpTo(_)
StringsUpTo(k) ==
    IF k = 0 THEN {<<>>}
    ELSE LET shorter == StringsUpTo(k - 1)
         IN  shorter \cup {Append(s, ch) : s \in shorter, ch \in CityChars}

\* The arguments fetchWeather is called with: none, null, numbers, booleans,
\* an object, and every string of CityChars up to MaxCityLen characters.
Cities ==
    {JsUndefined, JsNull, JsNumber(123), JsNumber(0), JsBoolean(TRUE),
     JsBoolean(FALSE), JsObject(<<>>)}
        \cup {JsString(s) : s \in StringsUpTo(MaxCityLen)}

RECURSIVE TrimStart(_)
TrimStart(s) == IF s # <<>> /\ Head(s) = " " THEN TrimStart(Tail(s)) ELSE s

RECURSIVE TrimEnd(_)
TrimEnd(s) ==
    IF s # <<>> /\ s[Len(s)] = " " THEN TrimEnd(SubSeq(s, 1, Len(s) - 1)) ELSE s

\* A trim that removes nothing.
TrimNothing(s) == s

\* city.trim()
Trim(s) == TrimEnd(TrimStart(s))

\* encodeURIComponent: a letter is kept, a space becomes %20.
RECURSIVE EncodeURIComponent(_)
EncodeURIComponent(s) ==
    IF s = <<>> THEN <<>>
    ELSE (IF Head(s) = " " THEN <<"%", "2", "0">> ELSE <<Head(s)>>)
             \o EncodeURIComponent(Tail(s))

WTTR_BASE_URL == <<"https://wttr.in">>

\* `${WTTR_BASE_URL}/${encodeURIComponent(city.trim())}?format=j1`
Url(city) ==
    WTTR_BASE_URL \o <<"/">> \o EncodeURIComponent(Trim(city.s)) \o <<"?format=j1">>

\* The arguments of axios.get.
Request(city) ==
    [url |-> Url(city), timeout |-> 10000, userAgent |-> "weather-cli/1.0.0"]

\* if (!city || typeof city !== 'string' || city.trim() === '')
CityRequired(city) ==
    \/ Falsy(city)
    \/ TypeOf(city) # "string"
    \/ Trim(city.s) = <<>>

\* What axios.get settles to: a response with its data, or an error.
Datas ==
    {JsNull, JsUndefined, JsString(<<>>), JsObject(<<>>),
     JsObject(<<"current_condition", "nearest_area">>)}

Responses ==
    {NoResponse, HttpResponse(404, "Not Found"),
     HttpResponse(500, "Internal Server Error")}

Codes == {"", "ECONNABORTED", "ENOTFOUND", "ERR_BAD_RESPONSE"}

AxiosErrors ==
    {[response |-> r, code |-> c, message |-> <<"Unknown error">>] :
        r \in Responses, c \in Codes}

AxiosOutcomes ==
    {[kind |-> "resolved", data |-> d, error |-> NewError(<<>>)] : d \in Datas}
        \cup {Rejected(e) : e \in AxiosErrors}

\* The catch block with the code tests ahead of the response test.
CaughtCodeFirst(error) ==
    IF error.code = "ECONNABORTED"
    THEN NewError(<<"Request timeout: Weather API did not respond in time">>)
    ELSE IF error.code = "ENOTFOUND"
    THEN NewError(<<"Network error: Unable to reach weather API">>)
    ELSE IF error.response.present
    THEN NewError(<<"API error: ">> \o StringOf(error.response.status)
                      \o <<" - ", error.response.statusText>>)
    ELSE error

\* The catch block: the error fetchWeather throws for the error it caught.
Caught(error) ==
    IF error.response.present
    THEN NewError(<<"API error: ">> \o StringOf(error.response.status)
                      \o <<" - ", error.response.statusText>>)
    ELSE IF error.code = "ECONNABORTED"
    THEN NewError(<<"Request timeout: Weather API did not respond in time">>)
    ELSE IF error.code = "ENOTFOUND"
    THEN NewError(<<"Network error: Unable to reach weather API">>)
    ELSE error

\* fetchWeather(city) is called: it throws at once, or issues the request and
\* suspends at `await axios.get(...)`.
FetchWeather(city) ==
    /\ weather.pc = "idle"
    /\ weather' =
         IF CityRequired(city)
         THEN [weather EXCEPT !.pc = "done", !.city = city,
                              !.result = Rejected(NewError(<<"City name is required">>))]
         ELSE [weather EXCEPT !.pc = "awaiting", !.city = city,
                              !.requests = Append(@, Request(city))]
    /\ UNCHANGED <<timelines, variant, hologram, listening, lastOp, panelVars, contentVars>>

\* axios.get settles and fetchWeather runs to its end: the try block returns the
\* data or throws, and whatever was thrown inside it goes through the catch block.
AxiosSettled(o) ==
    /\ weather.pc = "awaiting"
    /\ LET thrown == IF o.kind = "rejected" THEN Rejected(o.error)
                     ELSE IF Falsy(o.data)
                     THEN Rejected(NewError(<<"Empty response from weather API">>))
                     ELSE Pending
       IN  weather' =
             [weather EXCEPT !.pc = "done", !.outcome = o,
                             !.result = IF thrown.kind = "rejected"
                                        THEN Rejected(Caught(thrown.error))
                                        ELSE Resolved(o.data)]
    /\ UNCHANGED <<timelines, variant, hologram, listening, lastOp, panelVars, contentVars>>

WeatherCall == \E city \in Cities : FetchWeather(city)

WeatherSettle == \E o \in AxiosOutcomes : AxiosSettled(o)

WeatherNext == WeatherCall \/ WeatherSettle

InitWeather == Init /\ variant = "reversible" /\ hologram = "awaits"

\* The weather command line: one call of fetchWeather.
SpecWeather == InitWeather /\ [][WeatherNext]_vars

\* ---- The hologram's reveal (startAnimations) ----
\* The stages of the reveal, in the order startAnimations adds them.
Stages == <<"container", "image", "lines", "panels">>

\* The steps startAnimations adds to its timeline: timeline.add(target,
\* {duration}, at) places the step at the absolute position `at` (ms) of the
\* timeline, whatever the steps added before it.
TimelineSteps(version) ==
    IF version = "awaits"
    THEN << [stage |-> "container", target |-> "container",            at |-> 0,   duration |-> 400],
            [stage |-> "image",     target |-> "image",                at |-> 200, duration |-> 500],
            [stage |-> "lines",     target |-> "lineHeader",           at |-> 550, duration |-> 350],
            [stage |-> "lines",     target |-> "lineStats",            at |-> 620, duration |-> 350],
            [stage |-> "lines",     target |-> "lineDesc",             at |-> 690, duration |-> 400],
            [stage |-> "panels",    target |-> "hologram-header",      at |-> 800, duration |-> 400],
            [stage |-> "panels",    target |-> "hologram-stats",       at |-> 880, duration |-> 400],
            [stage |-> "panels",    target |-> "hologram-description", at |-> 960, duration |-> 400] >>
    ELSE << [stage |-> "container", target |-> "container",            at |-> 0,   duration |-> 300],
            [stage |-> "image",     target |-> "image",                at |-> 200, duration |-> 400],
            [stage |-> "lines",     target |-> "lineHeader",           at |-> 500, duration |-> 250],
            [stage |-> "lines",     target |-> "lineStats",            at |-> 550, duration |-> 250],
            [stage |-> "lines",     target |-> "lineDesc",             at |-> 600, duration |-> 300],
            [stage |-> "panels",    target |-> "hologram-header",      at |-> 700, duration |-> 300],
            [stage |-> "panels",    target |-> "hologram-stats",       at |-> 750, duration |-> 300],
            [stage |-> "panels",    target |-> "hologram-description", at |-> 800, duration |-> 300] >>

StepsOf(version) == {TimelineSteps(version)[i] : i \in 1..Len(TimelineSteps(version))}

\* The positions at which a step of the timeline begins or ends.
Instants(version) ==
    {st.at : st \in StepsOf(version)} \cup {st.at + st.duration : st \in StepsOf(version)}

\* The step is being played at position `at`; it has completed there.
Playing(st, at) == st.at <= at /\ at < st.at + st.duration

Completed(st, at) == st.at + st.duration <= at

\* The second animation frame after createHologram returned: startAnimations
\* creates the timeline of the attached container, which plays from position 0.
StartAnimations(h) ==
    /\ h \in holos
    /\ h.st = "attached"
    /\ \A t \in timelines : t.id # h.id
    /\ timelines' = timelines \cup {[id |-> h.id, at |-> 0]}
    /\ lastOp' = Other
    /\ UNCHANGED <<weather, variant, hologram, listening, panelVars, contentVars>>

\* The animation library plays the timeline on to the next position at which one
\* of its steps begins or ends.
TimelineAdvanced(t) ==
    /\ t \in timelines
    /\ \E next \in Instants(hologram) :
          /\ next > t.at
          /\ \A i \in Instants(hologram) : i > t.at => next <= i
          /\ timelines' = (timelines \ {t}) \cup {[t EXCEPT !.at = next]}
    /\ lastOp' = Other
    /\ UNCHANGED <<weather, variant, hologram, listening, panelVars, contentVars>>

Reveal == \E h \in holos : StartAnimations(h)

Advance == \E t \in timelines : TimelineAdvanced(t)

\* The way to an attached hologram and its reveal: no button is clicked.
RevealNext ==
    \/ AttachListeners
    \/ GestureOnce
    \/ OpenTimerFired
    \/ TypesSettle
    \/ Select
    \/ ListSettle
    \/ DetailSettle
    \/ SettleTimer
    \/ HoloFetch
    \/ Reveal
    \/ Advance

InitReveal == Init /\ variant = "oneshot"

SpecReveal == InitReveal /\ [][RevealNext]_vars

\* The panel controllers alone: no content task reads or writes a panel variable,
\* and no panel task reads or writes a content variable other than through
\* contentHidden, so the panel behaves in Spec as it does here.
SpecPanel == Init /\ [][PanelNext]_vars

\* SpecPanel with the animation layer and the timers delivering what they owe.
FairPanel ==
    /\ SpecPanel
    /\ WF_vars(LeftAnimFinished)
    /\ WF_vars(ContentAnimFinished)
    /\ WF_vars(OpenTimerFired)

\* The hologram's two requests both succeed.
HoloFetchOk == \E h \in holos, which \in SubFetches : HoloFetched(h, which, "ok")

\* The content flow behind the one-shot controller, whose leaf, hint and content
\* animations are left running: they touch nothing the content flow reads.  The
\* hologram is the one that awaits its fade-outs, and its requests succeed.
FlowNext ==
    \/ AttachListeners
    \/ GestureOnce
    \/ OpenTimerFired
    \/ TypesSettle
    \/ Select
    \/ ListSettle
    \/ DetailSettle
    \/ Back
    \/ SettleTimer
    \/ HoloFetchOk
    \/ CloseClick
    \/ NextClick
    \/ CloseFade
    \/ NextFade

InitFlow == Init /\ variant = "oneshot" /\ hologram = "awaits"

SpecFlow == InitFlow /\ [][FlowNext]_vars

\* The hologram in full, in both its versions and with every outcome of its two
\* requests, behind the same controller; the user never goes back to the selector.
HoloNext ==
    \/ AttachListeners
    \/ GestureOnce
    \/ OpenTimerFired
    \/ TypesSettle
    \/ Select
    \/ ListSettle
    \/ DetailSettle
    \/ SettleTimer
    \/ HoloFetch
    \/ CloseClick
    \/ NextClick
    \/ CloseFade
    \/ NextFade
    \/ FadeFinish

InitHolo == Init /\ variant = "oneshot"

SpecHolo == InitHolo /\ [][HoloNext]_vars

\* One hologram from construction to removal, in both versions and with every
\* outcome of its two requests: a single type is selected and Next is never clicked.
OverlayNext ==
    \/ AttachListeners
    \/ GestureOnce
    \/ OpenTimerFired
    \/ TypesSettle
    \/ Select
    \/ ListSettle
    \/ DetailSettle
    \/ SettleTimer
    \/ HoloFetch
    \/ CloseClick
    \/ CloseFade
    \/ FadeFinish

InitOverlay == Init /\ variant = "oneshot"

SpecOverlay == InitOverlay /\ [][OverlayNext]_vars

\* The refresh pipeline alone behind the same controller: types are selected, the
\* two fetches settle, the user goes back; the hologram timers are left pending.
RefreshNext ==
    \/ AttachListeners
    \/ GestureOnce
    \/ OpenTimerFired
    \/ TypesSettle
    \/ Select
    \/ ListSettle
    \/ DetailSettle
    \/ Back

InitRefresh == Init /\ variant = "oneshot" /\ hologram = "awaits"

SpecRefresh == InitRefresh /\ [][RefreshNext]_vars

\* The reversible controller with the content it mounts, up to the first hologram:
\* gestures open and close the panel while a type is selected, the refresh settles,
\* the settle timer fires and the hologram's requests succeed.
BookNext ==
    \/ AttachListeners
    \/ Gesture
    \/ LeftAnimFinished
    \/ RightAnimFinished
    \/ HintAnimFinished
    \/ ContentAnimFinished
    \/ TypesSettle
    \/ Select
    \/ ListSettle
    \/ DetailSettle
    \/ SettleTimer
    \/ HoloFetchOk

InitBook == Init /\ variant = "reversible" /\ hologram = "awaits"

SpecBook == InitBook /\ [][BookNext]_vars

\* Selections, Back clicks and Next-triggered refreshes behind the one-shot
\* controller: the hologram is never closed, only advanced with Next.
RegionsNext ==
    \/ AttachListeners
    \/ GestureOnce
    \/ OpenTimerFired
    \/ TypesSettle
    \/ Select
    \/ ListSettle
    \/ DetailSettle
    \/ Back
    \/ SettleTimer
    \/ HoloFetchOk
    \/ NextClick
    \/ NextFade

InitRegions == Init /\ variant = "oneshot" /\ hologram = "awaits"

SpecRegions == InitRegions /\ [][RegionsNext]_vars



(***************************************************************************)
(* Properties of the panel controllers.                                    *)
(***************************************************************************)

\* An open or close activation is suspended at one of its awaits.
InTransition == trans # <<>>

PanelCalls == {"handleScroll", "openPokedex", "closePokedex"}

\* C1: in the reversible panel a gesture, forward or backward, that arrives while
\* an open or close transition is running changes no flag, no visibility, starts
\* no animation and no activation; and nothing is queued: a transition starts
\* only in the very task that handles a gesture or a direct call.
C1_GestureDropped ==
    [][variant = "reversible" =>
         /\ (lastOp'.op = "handleScroll" /\ (InTransition \/ isAnimating)
                => UNCHANGED panelVars)
         /\ (Len(trans') > Len(trans) => lastOp'.op \in PanelCalls)]_vars

\* C1 witness: a backward gesture was just handled and the panel is still OPENING,
\* which no backward gesture can start.
C1_Witness ==
    /\ variant = "reversible"
    /\ lastOp.op = "handleScroll"
    /\ Lt0(lastOp.delta)
    /\ PanelState = "OPENING"
    /\ InTransition

\* C2: whatever gestures and direct openPokedex()/closePokedex() calls arrive, and
\* whenever, at most one open-or-close activation is in flight.
C2_OneTransition == Len(trans) <= 1

\* C2 witness: openPokedex() was just called while a close transition is running.
C2_Witness ==
    /\ lastOp.op = "openPokedex"
    /\ Len(trans) = 1
    /\ trans[1].kind = "close"

AllowedMoves ==
    {<<"CLOSED", "OPENING">>, <<"OPENING", "OPEN">>,
     <<"OPEN", "CLOSING">>, <<"CLOSING", "CLOSED">>}

\* C3: in the reversible panel a forward gesture handled in CLOSED leads to OPENING
\* and a backward gesture handled in OPEN to CLOSING; the state changes only along
\* CLOSED -> OPENING -> OPEN -> CLOSING -> CLOSED; and, the animation layer
\* delivering its completions, OPENING leads to OPEN and CLOSING to CLOSED.
C3_Transitions ==
    /\ [][variant = "reversible" =>
            /\ (PanelState' # PanelState => <<PanelState, PanelState'>> \in AllowedMoves)
            /\ (lastOp'.op = "handleScroll" /\ Gt0(lastOp'.delta) /\ PanelState = "CLOSED"
                   => PanelState' = "OPENING")
            /\ (lastOp'.op = "handleScroll" /\ Lt0(lastOp'.delta) /\ PanelState = "OPEN"
                   => PanelState' = "CLOSING")]_vars
    /\ ((variant = "reversible" /\ PanelState = "OPENING") ~> PanelState = "OPEN")
    /\ ((variant = "reversible" /\ PanelState = "CLOSING") ~> PanelState = "CLOSED")

\* C3 witness: the reversible panel is CLOSED again after a full open and close
\* (its left leaf has finished a rotation and the hint is fading back in).
C3_Witness ==
    /\ variant = "reversible"
    /\ PanelState = "CLOSED"
    /\ leftAnim = "finished"
    /\ ~leftHidden
    /\ contentHidden

\* C4: closePokedex() called in CLOSED and openPokedex() called in OPEN change no
\* flag, no visibility, and start no animation and no activation.
C4_Idempotent ==
    [][((lastOp'.op = "closePokedex" /\ PanelState = "CLOSED")
        \/ (lastOp'.op = "openPokedex" /\ PanelState = "OPEN"))
          => UNCHANGED panelVars]_vars

\* C4 witness: closePokedex() was just called and the panel is CLOSED with nothing
\* running; a call made in any other state leaves the panel in another state.
C4_Witness ==
    /\ lastOp.op = "closePokedex"
    /\ PanelState = "CLOSED"
    /\ ~InTransition
    /\ contentAnim # "running"

\* C9: in the reversible panel the machine is in a stable state (OPEN or CLOSED)
\* only when neither leaf rotation of the transition is still running.
C9_BothLeavesAwaited ==
    (variant = "reversible" /\ ~isAnimating)
        => (leftAnim # "running" /\ rightAnim # "running")

\* Some animation went from running to finished in this step.
AnimationCompletes ==
    \/ (leftAnim = "running" /\ leftAnim' = "finished")
    \/ (contentAnim = "running" /\ contentAnim' = "finished")
    \/ (rightAnim = "running" /\ rightAnim' = "finished")

\* C10: in both variants the machine leaves OPENING/CLOSING for a stable state only
\* in the task of an animation's completion, and no leaf rotation is still running
\* when it does.
C10_LeavesOnCompletion ==
    [][(PanelState \in {"OPENING", "CLOSING"} /\ PanelState' \in {"OPEN", "CLOSED"})
          => (AnimationCompletes /\ leftAnim' # "running" /\ rightAnim' # "running")]_vars

(***************************************************************************)
(* Properties of the content flow.                                         *)
(***************************************************************************)

Attached == {h \in holos : h.st = "attached"}

\* C5: once no activation of the refresh is in flight, an item shown in the display
\* slot is the item the most recently started activation produced, whichever
\* activation settled last.
C5_LatestWins ==
    (calls = {} /\ issued >= 2 /\ latest.kind = "item" /\ slot.kind = "item")
        => slot.item = latest.item

\* C6: an activation that is no longer the most recently started one changes
\* nothing visible when it settles: not the slot, not the hologram timers, not the
\* holograms; and the timer it armed opens no hologram.
C6_StaleDiscarded ==
    [][/\ \A c \in calls :
            (c.id # issued /\ c \notin calls')
                => (slot' = slot /\ timers' = timers /\ holos' = holos)
       /\ \A tm \in timers :
            (tm.id # issued /\ tm \notin timers') => holos' = holos]_vars

\* C7: at most one hologram container is attached to the document at a time.
C7_OneOverlay == Cardinality(Attached) <= 1

\* The holograms attached for refreshes that a Next on hologram p started.
Children(p) == {h \in Attached : h.src = p}

\* Nothing that a Next on hologram p started is still on its way.
Settled(p) ==
    /\ \A h \in holos : h.id = p => h.nexting = 0
    /\ \A c \in calls : c.src # p
    /\ \A tm \in timers : tm.src # p
    /\ \A h \in holos : h.src = p => h.st # "fetching"

\* C8: when Next was clicked twice on hologram p before its fade-out ended and
\* everything that followed has settled with the second refresh's hologram
\* attached, that hologram is the only one p gave rise to.
C8_DoubleNext ==
    \A p \in 1..MaxRefresh :
        (Settled(p) /\ \E h \in Children(p) : h.nth = 2)
            => Cardinality(Children(p)) = 1


(***************************************************************************)
(* Gesture handling: zero, non-finite and touch-drag deltas.               *)
(***************************************************************************)

\* C11: in both variants a gesture whose delta is zero changes nothing of the panel
\* in any state, and a gesture starts an opening only if its delta is positive and
\* a closing only if its delta is negative.
C11_ZeroDeltaIgnored ==
    [][lastOp'.op = "handleScroll" =>
          /\ (lastOp'.delta = 0 => UNCHANGED panelVars)
          /\ (Len(trans') > Len(trans) =>
                 IF trans'[Len(trans')].kind = "open"
                 THEN Gt0(lastOp'.delta)
                 ELSE Lt0(lastOp'.delta))]_vars


\* The delta an input event carries: a wheel event's deltaY, a touch's clientY.
RawDelta(e) == IF e.channel = "wheel" THEN e.deltaY ELSE e.clientY

\* C12: in the reversible panel a gesture whose delta is NaN, +Infinity or
\* -Infinity starts no transition and leaves the panel state unchanged.
C12_NonFiniteIgnored ==
    [][(variant = "reversible" /\ lastOp'.op = "handleScroll"
           /\ RawDelta(lastOp'.ev) \in NonFinite)
          => UNCHANGED panelVars]_vars


\* The signed directional delta of a gesture with a finite delta: a wheel event's
\* deltaY; for a touch drag the distance the content is dragged, which is positive
\* (forward, as a wheel scroll down) when the finger moves up the viewport.
DirectionalDelta(e) == IF e.channel = "wheel" THEN e.deltaY ELSE e.fromY - e.clientY

\* C13: in the reversible panel, on the wheel channel and on the touch-drag channel
\* alike, a backward gesture handled in OPEN starts CLOSING and a forward gesture
\* handled in CLOSED starts OPENING.
C13_BothChannels ==
    [][(variant = "reversible" /\ lastOp'.op = "handleScroll"
           /\ RawDelta(lastOp'.ev) \notin NonFinite)
          => /\ (DirectionalDelta(lastOp'.ev) < 0 /\ PanelState = "OPEN"
                    => PanelState' = "CLOSING")
             /\ (DirectionalDelta(lastOp'.ev) > 0 /\ PanelState = "CLOSED"
                    => PanelState' = "OPENING")]_vars


(***************************************************************************)
(* The refresh pipeline: failures and the display slot.                    *)
(***************************************************************************)

\* C14: when the membership list of the selected type arrives and is empty, the
\* activation ends there with the EmptyCategory failure: no detail request is
\* issued, the slot shows that failure's text, the selector stays hidden and the
\* display region shown, and no hologram timer, hologram or further activation
\* is started.
C14_EmptyCategory ==
    [][\A c \in calls :
          (/\ c.pc = "list"
           /\ Len(Members(c.type)) = 0
           /\ c \notin calls'
           /\ slot' # ErrorText("Failed to fetch Pokemon by type"))
          => /\ slot' = ErrorText("EmptyCategory")
             /\ calls' = calls \ {c}
             /\ selectorHidden' /\ ~displayHidden'
             /\ timers' = timers /\ holos' = holos /\ issued' = issued]_vars


\* C15: while an activation of the refresh is in flight the slot shows the loading
\* placeholder; the step that settles an activation replaces it by that activation's
\* item, or by an error text on a failed fetch; and once no activation is in flight
\* the slot no longer shows the loading placeholder.
C15_LoadingUntilSettled ==
    /\ [](calls # {} => slot = Loading)
    /\ [](calls = {} => slot.kind # "loading")
    /\ [][\A c \in calls :
             (\A d \in calls' : d.id # c.id)
             => \/ slot' = Rendered(c.pick) /\ c.pc = "detail"
                \/ slot'.kind = "error"]_vars


\* C16: whenever a failed refresh has left its error text in the slot of the open
\* panel, the "back to selector" action can be taken.
C16_BackAfterError ==
    (slot.kind = "error" /\ ~displayHidden /\ ~contentHidden) => ENABLED Back


(***************************************************************************)
(* Properties of the hologram overlay.                                     *)
(***************************************************************************)

\* The record in S of the container built by activation id, if it is still there.
HoloOf(id, S) == {g \in S : g.id = id}

\* The click handlers of that container still suspended, and its running fade-outs.
HandlersOf(id, S) ==
    IF HoloOf(id, S) = {} THEN 0
    ELSE LET g == CHOOSE x \in HoloOf(id, S) : TRUE IN g.closing + g.nexting

FadesOf(id, S) ==
    IF HoloOf(id, S) = {} THEN 0
    ELSE LET g == CHOOSE x \in HoloOf(id, S) : TRUE IN g.fading

\* C17: in both versions of the hologram, a Close or Next click handler detaches the
\* container and invokes onClose or onNext only once the fade-out its click started
\* has finished: when a handler does so, no fade-out is running on the container
\* except those of the handlers still suspended.
C17_AfterFadeOut ==
    [][\A h \in holos :
          HandlersOf(h.id, holos') < h.closing + h.nexting
          => FadesOf(h.id, holos') <= HandlersOf(h.id, holos')]_vars


\* C18: the activation started by a Next click on a hologram is for the type whose
\* activation produced that hologram's item; and a container that was detached is
\* never attached again (the new item gets a container of its own).
C18_NextSameType ==
    [][\A h \in holos :
          /\ \A c \in calls' \ calls : c.src = h.id => c.type = h.type
          /\ h.st = "detached" => \A g \in HoloOf(h.id, holos') : g.st = "detached"]_vars


\* C19: createHologram leaves its loading state (returns, and its container is
\* attached) only when both of its requests have settled, whichever settles first
\* and also when one of them has failed.
C19_BothSettled ==
    \A h \in holos : h.st # "fetching" => h.det # "pending" /\ h.spe # "pending"

\* C20: when exactly one of the two requests has failed, the hologram is attached
\* and only the section that request feeds shows the error: the stats section for
\* the full record, the description section for the species record.
C20_OnlyFailedSection ==
    \A h \in holos :
       /\ (h.det = "fail" /\ h.spe = "ok") => (h.stats = "error" /\ h.desc = "data")
       /\ (h.det = "ok" /\ h.spe = "fail") => (h.stats = "data" /\ h.desc = "error")


\* Promise.all of h's two requests has settled: one has failed or both succeeded.
JoinSettled(h) == h.det = "fail" \/ h.spe = "fail" \/ (h.det = "ok" /\ h.spe = "ok")

\* C21: createHologram never rejects: a container under construction never
\* disappears, and however its two requests turn out, once their join has settled
\* createHologram has returned and the caller has attached the container.
C21_NeverRejects ==
    [][\A h \in holos :
          h.st = "fetching"
          => \E g \in HoloOf(h.id, holos') :
                IF JoinSettled(g) THEN g.st = "attached" ELSE g.st = "fetching"]_vars

\* C21 witness: a container is attached although both of its requests failed.
C21_Witness ==
    \E h \in holos : h.st = "attached" /\ h.det = "fail" /\ h.spe = "fail"


\* The lifecycle state of a container, and of the instance built by activation id.
OverlayState(h) ==
    IF h.st = "fetching" THEN "LOADING"
    ELSE IF h.st = "detached" THEN "ABSENT"
    ELSE IF h.closing + h.nexting > 0 THEN "CLOSING" ELSE "READY"

StateOf(id, S) ==
    IF HoloOf(id, S) = {} THEN "ABSENT"
    ELSE OverlayState(CHOOSE x \in HoloOf(id, S) : TRUE)

OverlayMoves ==
    {<<"ABSENT", "LOADING">>, <<"LOADING", "READY">>,
     <<"READY", "CLOSING">>, <<"CLOSING", "ABSENT">>}

\* A Close or Next click on h is acted on in this step: a handler of h starts.
ClickActedOn(h) ==
    \E g \in HoloOf(h.id, holos') : g.closing > h.closing \/ g.nexting > h.nexting

\* C22: an overlay instance changes state only along ABSENT -> LOADING -> READY ->
\* CLOSING -> ABSENT (so it is never detached except from CLOSING); in LOADING its
\* two sections still show their loading text; and a Close or Next click is acted
\* on only in READY.
C22_OverlayLifecycle ==
    /\ [][\A id \in 1..MaxRefresh :
             StateOf(id, holos) # StateOf(id, holos')
             => <<StateOf(id, holos), StateOf(id, holos')>> \in OverlayMoves]_vars
    /\ [](\A h \in holos : h.st = "fetching" => h.stats = "loading" /\ h.desc = "loading")
    /\ [][\A h \in holos : ClickActedOn(h) => OverlayState(h) = "READY"]_vars


\* C23: the item rendering shows "No." and the id padded with zeros to 3 digits when
\* the id is at most 999 and to 4 digits above, and the name with its first letter
\* in upper case and the rest as it is.
C23_NumberAndName ==
    slot.kind = "item"
    => /\ slot.no = <<"N", "o", ".">>
                      \o PadStart(StringOf(slot.item), IF slot.item > 999 THEN 4 ELSE 3, "0")
       /\ slot.item = 25 => slot.no = <<"N", "o", ".", "0", "2", "5">>
       /\ slot.item = 1024 => slot.no = <<"N", "o", ".", "1", "0", "2", "4">>
       /\ slot.item = 4 => slot.name = <<"C", "h", "a", "r", "m", "a", "n", "d", "e", "r">>
       /\ Len(slot.name) = Len(NameOf(slot.item))
       /\ \A i \in 2..Len(slot.name) : slot.name[i] = NameOf(slot.item)[i]


(***************************************************************************)
(* The selector after a failure, the one-shot panel once open.             *)
(***************************************************************************)

\* Some task of the program requests the type list again.
RequestTypesAgain == Next /\ typesState' = "loading"

\* C24: while the selector shows the error of a failed type-list request, the user
\* can have the list requested again.
C24_Retryable == typesState = "error" => ENABLED RequestTypesAgain


\* C25: in the one-shot panel, from the moment it is OPEN its listeners are retired,
\* it stays OPEN whatever gesture follows, and no leaf, hint or content animation
\* and no opening activation is started again.
C25_OneShotStaysOpen ==
    /\ []((variant = "oneshot" /\ PanelState = "OPEN") => listening = "off")
    /\ [][(variant = "oneshot" /\ PanelState = "OPEN")
            => /\ PanelState' = "OPEN"
               /\ trans' = <<>>
               /\ leftAnim' = "running" => leftAnim = "running"
               /\ rightAnim' = "running" => rightAnim = "running"
               /\ hintAnim' = "running" => hintAnim = "running"
               /\ contentAnim' = "running" => contentAnim = "running"]_vars

\* C25 witness: the one-shot panel is OPEN and a backward wheel gesture has just
\* been made.
C25_Witness ==
    /\ variant = "oneshot"
    /\ PanelState = "OPEN"
    /\ lastOp.op = "unheard"
    /\ lastOp.ev.channel = "wheel"
    /\ Lt0(lastOp.ev.deltaY)


(***************************************************************************)
(* Inside one activation of the refresh.                                   *)
(***************************************************************************)

\* The activation of c as it is after the step, if it is still suspended.
After(c) == {d \in calls' : d.id = c.id}

ListFailure == ErrorText("Failed to fetch Pokemon by type")

C29_MemberOfList ==
    /\ [](\A c \in calls :
             c.pc = "detail" => \E i \in 1..Len(Members(c.type)) : c.pick = Members(c.type)[i])
    /\ [][\A c \in calls :
             (/\ c.pc = "list"
              /\ c \notin calls'
              /\ Len(Members(c.type)) > 0
              /\ ~(After(c) = {} /\ slot' = ListFailure))
             => \E d \in After(c) :
                   /\ d.pc = "detail"
                   /\ \E i \in 1..Len(Members(c.type)) : d.pick = Members(c.type)[i]]_vars

\* C29 witness: the random source yielded its largest value and the last member of a
\* two-member list was drawn.
C29_Witness == \E c \in calls : c.pc = "detail" /\ c.type = "fire" /\ c.pick = 25


\* ---- C26 ----
\* The city argument is missing, null, not a string, empty or made of spaces only.
NoCityName(city) ==
    \/ city.t # "string"
    \/ \A i \in 1..Len(city.s) : city.s[i] = " "

\* C26: for every city argument that is missing, null, not a string, empty or
\* whitespace-only, fetchWeather rejects with 'City name is required' and has
\* issued no HTTP request.
C26_CityNameRequired ==
    weather.pc # "idle" /\ NoCityName(weather.city)
        => /\ weather.pc = "done"
           /\ weather.result = Rejected(NewError(<<"City name is required">>))
           /\ weather.requests = <<>>

\* fetchWeather was called with two spaces and rejected without a request.
C26_Witness ==
    /\ weather.pc = "done"
    /\ weather.city = JsString(<<" ", " ">>)
    /\ weather.result.kind = "rejected"
    /\ weather.requests = <<>>

\* ---- C27 ----
\* C27: a failure with an HTTP response rejects with 'API error: <status> -
\* <statusText>'; otherwise code ECONNABORTED rejects with the request-timeout
\* message; otherwise code ENOTFOUND rejects with the network-error message; any
\* other failure is re-thrown unchanged; a successful response with empty data
\* rejects with 'Empty response from weather API'; a successful response with
\* data resolves to that data unchanged.
C27_OutcomePriority ==
    weather.pc = "done" /\ weather.requests # <<>>
        => LET o == weather.outcome
               e == o.error
               empty == o.data.t \in {"null", "undefined"}
                           \/ o.data = JsString(<<>>)
           IN  weather.result =
                 IF o.kind = "rejected" /\ e.response.present
                 THEN Rejected(NewError(<<"API error: ">> \o StringOf(e.response.status)
                                            \o <<" - ", e.response.statusText>>))
                 ELSE IF o.kind = "rejected" /\ e.code = "ECONNABORTED"
                 THEN Rejected(NewError(
                          <<"Request timeout: Weather API did not respond in time">>))
                 ELSE IF o.kind = "rejected" /\ e.code = "ENOTFOUND"
                 THEN Rejected(NewError(<<"Network error: Unable to reach weather API">>))
                 ELSE IF o.kind = "rejected"
                 THEN Rejected(e)
                 ELSE IF empty
                 THEN Rejected(NewError(<<"Empty response from weather API">>))
                 ELSE Resolved(o.data)

\* A failure that carries both an HTTP 404 response and the code ECONNABORTED
\* was rejected as an API error.
C27_Witness ==
    /\ weather.pc = "done"
    /\ weather.outcome.kind = "rejected"
    /\ weather.outcome.error.response = HttpResponse(404, "Not Found")
    /\ weather.outcome.error.code = "ECONNABORTED"
    /\ weather.result.error.message = <<"API error: ", "4", "0", "4", " - ", "Not Found">>


\* ---- C30 ----
\* A stage of the reveal has started, has completed, at timeline position `at`.
StageStarted(stage, at) ==
    \E st \in StepsOf(hologram) : st.stage = stage /\ st.at <= at

StageCompleted(stage, at) ==
    \A st \in StepsOf(hologram) : st.stage = stage => Completed(st, at)

\* C30: the reveal runs container fade, image reveal, connective-line reveal,
\* information panels in this order, and a stage has started only when the stage
\* before it has completed (no stage overlaps its predecessor).
C30_StagesGated ==
    \A t \in timelines : \A i \in 1..(Len(Stages) - 1) :
        StageStarted(Stages[i + 1], t.at)
            => StageStarted(Stages[i], t.at) /\ StageCompleted(Stages[i], t.at)


(***************************************************************************)
(* Callbacks of one overlay, overlay and slot, overlay and panel, flags.   *)
(***************************************************************************)

\* C31: for one overlay instance, whatever Close and Next clicks it received, at
\* most one of onClose / onNext is invoked, and at most once: after the handler
\* that invoked a callback and detached the container, no further click handler of
\* that container resumes to invoke another.
C31_OneCallback ==
    [][\A h \in holos :
          h.st = "detached" => HandlersOf(h.id, holos') >= h.closing + h.nexting]_vars


\* C32: whenever an overlay is attached, the display region is the visible one and
\* the item rendered in the display slot is the overlay's item; in particular no
\* overlay is attached for an item the user left by going back to the selector.
C32_OverlayShowsSlotItem ==
    \A h \in Attached :
        /\ ~displayHidden
        /\ slot.kind = "item"
        /\ slot.item = h.item


\* C33: while the reversible panel is CLOSED or CLOSING no overlay is attached,
\* whatever was in flight (a refresh, a settle timer, an overlay) when the panel
\* began to close.
C33_NoOverlayWhenClosed ==
    (variant = "reversible" /\ PanelState \in {"CLOSED", "CLOSING"}) => Attached = {}


\* C34: in every stable state of the reversible panel the visibility flags match
\* the state (CLOSED: content region hidden, both leaves shown; OPEN: content
\* region shown, both leaves hidden), and a type of the selector can be selected
\* only when the state is OPEN.
C34_FlagsMatchState ==
    variant = "reversible" =>
        /\ PanelState = "CLOSED" => (contentHidden /\ ~leftHidden /\ ~rightHidden)
        /\ PanelState = "OPEN" => (~contentHidden /\ leftHidden /\ rightHidden)
        /\ ENABLED Select => PanelState = "OPEN"


\* C35: after any selections, Back clicks and Next-triggered refreshes exactly one
\* of the selector region and the display region is visible; a step that starts a
\* refresh hides the selector and shows the display region, and any other step
\* that changes a flag is a Back click: it shows the selector, hides the display
\* region, starts with the item rendering on display and changes nothing else of
\* the content.
C35_OneRegionVisible ==
    /\ [](selectorHidden # displayHidden)
    /\ [][/\ issued' # issued => (selectorHidden' /\ ~displayHidden')
          /\ (issued' = issued /\ <<selectorHidden, displayHidden>>' # <<selectorHidden, displayHidden>>)
                => /\ slot.kind = "item" /\ ~displayHidden
                   /\ ~selectorHidden' /\ displayHidden'
                   /\ UNCHANGED <<typesState, currentType, slot, calls, timers, holos>>]_vars

\* The selector is back on display after a refresh that a Next click started.
C35_Witness ==
    /\ ~selectorHidden
    /\ displayHidden
    /\ \E h \in holos : h.src # 0

=============================================================================
